---- MODULE Spec2Model ----
(***************************************************************************)
(* The canonical-dataset builder of update_news_data_latest.py:            *)
(* find_source_files, load_sources, build_latest and main, over a small    *)
(* file system of CSV files.                                               *)
(*                                                                         *)
(* A cell value in memory is a string; NaN stands for the float NaN that   *)
(* read_csv yields for an empty cell.  Every column is textual (no column  *)
(* of a file holds only numbers), so read_csv gives object columns.        *)
(***************************************************************************)
EXTENDS Integers, Sequences, FiniteSets, TLC

VARIABLES
    disk,           \* the files under Path("."): path -> header and rows
    merged,         \* main: merged, the pool load_sources returned
    latest,         \* main: latest, what build_latest returned
    status,         \* how the last run ended ("none" before the first run)
    source_files,   \* main: source_files of the last run
    before,         \* the files as the last run found them
    runs,           \* number of runs of main so far
    prev            \* how the run before the last one ended

vars == <<disk, merged, latest, status, source_files, before, runs, prev>>

(***************************************************************************)
(* Bounds of the model.                                                    *)
(***************************************************************************)
\* longest input pool handed to build_latest in SpecBuild
MaxRows == 3
\* most rows of one source file on the initial disk
MaxFileRows == 1
\* most runs of main in one behaviour
MaxRuns == 2

(***************************************************************************)
(* Module constants of update_news_data_latest.py.                         *)
(***************************************************************************)
OUTPUT_FILES == <<"news_data.csv", "news_data_latest.csv">>

CANONICAL_FILE == "news_data_latest.csv"

REQUIRED_COLUMNS ==
    {"title", "link", "summary", "publisher", "reporter", "signal", "collected_at"}

(***************************************************************************)
(* Cell values and the pandas string helpers, on the values of the model.  *)
(***************************************************************************)
\* the in-memory missing value (float NaN)
NaN == "<NaN>"

\* pd.to_datetime(..., errors="coerce") gives NaT for what it cannot parse
NaT == 0

\* Series.astype(str): NaN becomes the text "nan"
astype_str(v) == IF v = NaN THEN "nan" ELSE v

\* Series.str.strip()
str_strip(s) ==
    CASE s = " " -> ""
      [] s = " nan " -> "nan"
      [] OTHER -> s

\* Series.str.lower()
str_lower(s) ==
    CASE s = "NAN" -> "nan"
      [] OTHER -> s

\* pd.to_datetime of one cell: ISO timestamps parse, anything else is NaT
to_datetime(v) ==
    CASE v = "2024-01-01T00:00" -> 1
      [] v = "2024-01-02T00:00" -> 2
      [] v = "2024-01-03T00:00" -> 3
      [] OTHER -> NaT

(***************************************************************************)
(* Sequence helpers.                                                       *)
(***************************************************************************)
\* the rows of s at the positions in idx, in their order in s (the selection
\* df[mask] with idx the positions where the mask is true)
RECURSIVE Pick(_, _, _)
Pick(s, idx, i) ==
    IF i > Len(s) THEN <<>>
    ELSE (IF i \in idx THEN <<s[i]>> ELSE <<>>) \o Pick(s, idx, i + 1)

(***************************************************************************)
(* build_latest, line by line.  A data frame is a sequence of rows; a row  *)
(* is a record of cell values.                                             *)
(***************************************************************************)
\* variant: the summary is compared without .str.strip()
summary_ok_unstripped(r) ==
    LET summary == astype_str(r.summary)
    IN  summary # "" /\ summary # "nan" /\ summary # "None"

\* line 45-46: the rows whose stripped summary is neither "", "nan" nor "None"
summary_ok(r) ==
    LET summary == str_strip(astype_str(r.summary))
    IN  summary # "" /\ summary # "nan" /\ summary # "None"

\* line 48: the helper column __collected_at_dt
with_dt(r) == r @@ ("__collected_at_dt" :> to_datetime(r.collected_at))

dt(r) == r["__collected_at_dt"]

\* lines 49 and 58: DataFrame.sort_values on __collected_at_dt with the default
\* kind="quicksort" and na_position="last".  The NaT rows go last in their
\* original order; the other rows are ordered by the key, and since the default
\* sort is not stable the order of rows with equal keys is any order.
RECURSIVE argsort(_, _, _)
argsort(df, S, ascending) ==
    IF S = {} THEN {<<>>}
    ELSE LET InOrder(a, b) == IF ascending THEN a <= b ELSE a >= b
             firsts == {i \in S : \A k \in S : InOrder(dt(df[i]), dt(df[k]))}
         IN  UNION {{<<i>> \o p : p \in argsort(df, S \ {i}, ascending)} : i \in firsts}

\* variant: the NaT rows are dropped instead of placed last
sort_values_dropna(df, ascending) ==
    LET non_nan_idx == {i \in 1..Len(df) : dt(df[i]) # NaT}
    IN  {[i \in 1..Len(p) |-> df[p[i]]] : p \in argsort(df, non_nan_idx, ascending)}

sort_values(df, ascending) ==
    LET idx == 1..Len(df)
        nan_idx == {i \in idx : dt(df[i]) = NaT}
        non_nan_idx == idx \ nan_idx
    IN  {[i \in 1..Len(p) |-> df[p[i]]] \o Pick(df, nan_idx, 1) :
            p \in argsort(df, non_nan_idx, ascending)}

\* lines 51-52
has_link(r) ==
    LET link == str_strip(astype_str(r.link))
    IN  link # "" /\ str_lower(link) # "nan"

\* variant: keep="first"
drop_duplicates_first(df, subset) ==
    Pick(df, {i \in 1..Len(df) :
                ~ \E j \in 1..(i - 1) : \A c \in subset : df[j][c] = df[i][c]}, 1)

\* DataFrame.drop_duplicates(subset=..., keep="last"): a row stays when no later
\* row agrees with it on every column of subset (NaN cells count as equal)
drop_duplicates(df, subset) ==
    Pick(df, {i \in 1..Len(df) :
                ~ \E j \in (i + 1)..Len(df) : \A c \in subset : df[j][c] = df[i][c]}, 1)

\* line 54
with_link(df) ==
    drop_duplicates(Pick(df, {i \in 1..Len(df) : has_link(df[i])}, 1), {"link"})

\* line 55: the mask ~has_link
no_link(r) == ~ has_link(r)

\* variant: the linkless rows are not deduplicated
without_link_all(df) == Pick(df, {i \in 1..Len(df) : no_link(df[i])}, 1)

\* variant: the (title, summary) deduplication runs over all rows, linked or not
without_link_any(df) == drop_duplicates(df, {"title", "summary"})

\* line 55
without_link(df) ==
    drop_duplicates(Pick(df, {i \in 1..Len(df) : no_link(df[i])}, 1), {"title", "summary"})

\* line 57
concat(a, b) == a \o b

\* lines 59 and 61: out.drop(columns=["__collected_at_dt"]) and out[REQUIRED_COLUMNS]
project(df) == [i \in 1..Len(df) |-> [c \in REQUIRED_COLUMNS |-> df[i][c]]]

\* line 49
sorted_pool(df) == sort_values(df, TRUE)

\* variant: ascending=True
sorted_out_asc(out) == sort_values(out, TRUE)

\* line 58
sorted_out(out) == sort_values(out, FALSE)

\* the data frames build_latest(df) can return
build_latest(df) ==
    IF df = <<>> THEN {df}
    ELSE LET valid == Pick(df, {i \in 1..Len(df) : summary_ok(df[i])}, 1)
             dated == [i \in 1..Len(valid) |-> with_dt(valid[i])]
         IN  UNION {{project(out) :
                        out \in sorted_out(concat(with_link(s), without_link(s)))} :
                    s \in sorted_pool(dated)}

(***************************************************************************)
(* The input pools of SpecBuild: every sequence of at most MaxRows rows    *)
(* that load_sources can return.                                           *)
(***************************************************************************)
Cells ==
    [title |-> {"T1"},
     link |-> {NaN, " ", "L1"},
     summary |-> {NaN, "s1", "s2"},
     publisher |-> {"P1"},
     reporter |-> {"R1"},
     signal |-> {"FLAT"},
     collected_at |-> {"2024-01-01T00:00", "2024-01-02T00:00", "bad"}]

Rows ==
    [title : Cells.title, link : Cells.link, summary : Cells.summary,
     publisher : Cells.publisher, reporter : Cells.reporter, signal : Cells.signal,
     collected_at : Cells.collected_at]

Pools == UNION {[1..n -> Rows] : n \in 0..MaxRows}

NoFile == [exists |-> FALSE, columns |-> {}, rows |-> <<>>]

InitBuild ==
    /\ merged \in Pools
    /\ latest = <<>>
    /\ status = "loaded"
    /\ disk = <<>>
    /\ source_files = <<>>
    /\ before = <<>>
    /\ runs = 0
    /\ prev = <<>>

\* latest = build_latest(merged)
Build ==
    /\ status = "loaded"
    /\ latest' \in build_latest(merged)
    /\ status' = "built"
    /\ UNCHANGED <<disk, merged, source_files, before, runs, prev>>

NextBuild == Build

SpecBuild == InitBuild /\ [][NextBuild]_vars

(***************************************************************************)
(* The input pools of SpecFields: linkless rows whose summary, publisher,  *)
(* reporter and signal cells may be empty in the source file (NaN once     *)
(* loaded) or, for the summary, blank.                                     *)
(***************************************************************************)
FieldCells ==
    [title |-> {"T1"},
     link |-> {NaN},
     summary |-> {NaN, " ", "s1", "s2"},
     collected_at |-> {"2024-01-01T00:00"}]

\* publisher, reporter and signal of a row: all filled, one of them empty, or
\* all three empty
Annotations ==
    {<<"P1", "R1", "FLAT">>, <<NaN, "R1", "FLAT">>, <<"P1", NaN, "FLAT">>,
     <<"P1", "R1", NaN>>, <<NaN, NaN, NaN>>}

FieldRows ==
    {[title |-> t, link |-> l, summary |-> s, publisher |-> a[1], reporter |-> a[2],
      signal |-> a[3], collected_at |-> c] :
        t \in FieldCells.title, l \in FieldCells.link, s \in FieldCells.summary,
        a \in Annotations, c \in FieldCells.collected_at}

FieldPools == UNION {[1..n -> FieldRows] : n \in 0..MaxRows}

InitFields ==
    /\ merged \in FieldPools
    /\ latest = <<>>
    /\ status = "loaded"
    /\ disk = <<>>
    /\ source_files = <<>>
    /\ before = <<>>
    /\ runs = 0
    /\ prev = <<>>

SpecFields == InitFields /\ [][NextBuild]_vars

(***************************************************************************)
(* The file system.  A file is a header (its set of column names) and a    *)
(* sequence of rows of text cells; the empty cell is "".                   *)
(***************************************************************************)
Paths ==
    {"archive/news_data_old.csv", "news_data.csv", "news_data_2.csv",
     "news_data_latest.csv", "notes.csv"}

\* Path.name
path_name(p) ==
    CASE p = "archive/news_data_old.csv" -> "news_data_old.csv"
      [] OTHER -> p

\* the order of sorted() on the paths of the model
path_rank(p) ==
    CASE p = "archive/news_data_old.csv" -> 1
      [] p = "news_data.csv" -> 2
      [] p = "news_data_2.csv" -> 3
      [] p = "news_data_latest.csv" -> 4
      [] OTHER -> 5

\* the pattern "news_data*.csv" of root.rglob
rglob_match(p) ==
    path_name(p) \in {"news_data_old.csv", "news_data.csv", "news_data_2.csv",
                      "news_data_latest.csv"}

\* sorted(S): the paths of S in ascending order
RECURSIVE sorted(_)
sorted(S) ==
    IF S = {} THEN <<>>
    ELSE LET first == CHOOSE p \in S : \A q \in S : path_rank(p) <= path_rank(q)
         IN  <<first>> \o sorted(S \ {first})

\* find_source_files(Path(".")) on the file system d
find_source_files(d) ==
    LET files == sorted({p \in Paths : d[p].exists /\ rglob_match(p)})
    IN  Pick(files, {i \in 1..Len(files) : path_name(files[i]) # CANONICAL_FILE}, 1)

\* pd.read_csv: the default na_values that become NaN
na_values == {"", "nan", "NaN", "None", "NA", "N/A", "null", "NULL"}

read_cell(t) == IF t \in na_values THEN NaN ELSE t

read_csv(file) ==
    [columns |-> file.columns,
     rows |-> [i \in 1..Len(file.rows) |->
                [c \in DOMAIN file.rows[i] |-> read_cell(file.rows[i][c])]]]

\* DataFrame.to_csv(index=False): NaN is written as the empty cell
write_cell(v) == IF v = NaN THEN "" ELSE v

to_csv(df) ==
    [exists |-> TRUE,
     columns |-> REQUIRED_COLUMNS,
     rows |-> [i \in 1..Len(df) |-> [c \in DOMAIN df[i] |-> write_cell(df[i][c])]]]

\* line 30
missing(file) == {c \in REQUIRED_COLUMNS : c \notin read_csv(file).columns}

\* variant: without the guard of lines 35-36, pd.concat of no frame raises too
load_raises_unguarded(d, files) ==
    files = <<>> \/ \E i \in 1..Len(files) : {c \in REQUIRED_COLUMNS : c \notin d[files[i]].columns} # {}

\* load_sources, lines 28-32: some file lacks a required column and the loop raises
load_raises(d, files) == \E i \in 1..Len(files) : missing(d[files[i]]) # {}

\* load_sources, lines 33-38: the frames of the files, concatenated in order
RECURSIVE load_sources(_, _)
load_sources(d, files) ==
    IF files = <<>> THEN <<>>
    ELSE read_csv(d[Head(files)]).rows \o load_sources(d, Tail(files))

(***************************************************************************)
(* The initial file systems.                                               *)
(***************************************************************************)
FileRows ==
    {[title |-> "T1", link |-> "L1", summary |-> "s1", publisher |-> "P1",
      reporter |-> "R1", signal |-> "FLAT", collected_at |-> "2024-01-01T00:00"],
     [title |-> "T1", link |-> "L1", summary |-> "s2", publisher |-> "P1",
      reporter |-> "R1", signal |-> "FLAT", collected_at |-> "2024-01-01T00:00"],
     [title |-> "T1", link |-> "", summary |-> "s1", publisher |-> "P1",
      reporter |-> "R1", signal |-> "FLAT", collected_at |-> "2024-01-02T00:00"],
     [title |-> "T1", link |-> "L1", summary |-> "s1", publisher |-> "P1",
      reporter |-> "R1", signal |-> "FLAT", collected_at |-> "bad"]}

RowSeqs == UNION {[1..n -> FileRows] : n \in 0..MaxFileRows}

\* files with the full header (the collector also writes region, keyword and tag)
GoodFiles ==
    {NoFile} \cup
    {[exists |-> TRUE, columns |-> REQUIRED_COLUMNS \cup {"region"}, rows |-> rs] :
        rs \in RowSeqs}

\* files without the reporter column
BadFiles ==
    {[exists |-> TRUE, columns |-> REQUIRED_COLUMNS \ {"reporter"}, rows |-> rs] :
        rs \in RowSeqs}

StaleFile ==
    [exists |-> TRUE, columns |-> REQUIRED_COLUMNS,
     rows |-> <<[title |-> "T0", link |-> "L0", summary |-> "s0", publisher |-> "P1",
                 reporter |-> "R1", signal |-> "FLAT",
                 collected_at |-> "2024-01-01T00:00"]>>]

NotesFile == [exists |-> TRUE, columns |-> {"note"}, rows |-> <<>>]

Init ==
    /\ \E old \in GoodFiles, news \in GoodFiles, two \in GoodFiles \cup BadFiles,
          canonical \in {NoFile, StaleFile} :
            disk = [p \in Paths |->
                        CASE p = "archive/news_data_old.csv" -> old
                          [] p = "news_data.csv" -> news
                          [] p = "news_data_2.csv" -> two
                          [] p = "news_data_latest.csv" -> canonical
                          [] OTHER -> NotesFile]
    /\ merged = <<>>
    /\ latest = <<>>
    /\ status = "none"
    /\ source_files = <<>>
    /\ before = disk
    /\ runs = 0
    /\ prev = "none"

\* variant: the rows are appended to what the target held
written_append(d, df, n) ==
    [p \in Paths |->
        IF \E k \in 1..n : OUTPUT_FILES[k] = p
        THEN [exists |-> TRUE, columns |-> REQUIRED_COLUMNS,
              rows |-> d[p].rows \o to_csv(df).rows]
        ELSE d[p]]

\* lines 69-70: the file system after the first n targets have been written
written(d, df, n) ==
    [p \in Paths |->
        IF \E k \in 1..n : OUTPUT_FILES[k] = p THEN to_csv(df) ELSE d[p]]

\* one run of main.  status is how the run ended: "ok", "ValueError" (raised by
\* load_sources) or "OSError" (raised by to_csv on a target that cannot be
\* opened, the targets before it already replaced).  sort_values is a function
\* of its input: a pool equal to that of the run before is ordered as before.
Main ==
    /\ runs < MaxRuns
    /\ runs' = runs + 1
    /\ before' = disk
    /\ prev' = status
    /\ source_files' = find_source_files(disk)
    /\ IF load_raises(disk, source_files')
       THEN /\ status' = "ValueError"
            /\ merged' = <<>>
            /\ latest' = <<>>
            /\ disk' = disk
       ELSE /\ merged' = load_sources(disk, source_files')
            /\ IF status \in {"ok", "OSError"} /\ merged' = merged
               THEN latest' = latest
               ELSE latest' \in build_latest(merged')
            /\ \E n \in 0..Len(OUTPUT_FILES) :
                /\ status' = IF n = Len(OUTPUT_FILES) THEN "ok" ELSE "OSError"
                /\ disk' = written(disk, latest', n)

Next == Main

Spec == Init /\ [][Next]_vars

(***************************************************************************)
(* Vocabulary of the properties.                                           *)
(***************************************************************************)
\* the identity of a row for deduplication (lines 54-55): its link when it has
\* one, otherwise its (title, summary) pair
dedup_key(r) ==
    IF has_link(r) THEN <<"link", r.link, "">> ELSE <<"title_summary", r.title, r.summary>>

parseable(r) == to_datetime(r.collected_at) # NaT

\* positions of the valid rows of the pool that share the key of row i
Group(i) ==
    {j \in 1..Len(merged) : summary_ok(merged[j]) /\ dedup_key(merged[j]) = dedup_key(merged[i])}

\* positions of the output rows with key k
Kept(k) == {o \in 1..Len(latest) : dedup_key(latest[o]) = k}

Last(S) == CHOOSE j \in S : \A k \in S : k <= j

Newest(S) ==
    CHOOSE j \in S :
        \A k \in S : to_datetime(merged[k].collected_at) <= to_datetime(merged[j].collected_at)

\* C1: of a group of valid rows with one key whose collected_at all parse and are
\* pairwise different, build_latest keeps exactly one row, the one with the
\* latest collected_at, wherever that row stands in the pool.
C1_LatestOfGroupKept ==
    status = "built" =>
        \A i \in 1..Len(merged) :
            (/\ summary_ok(merged[i])
             /\ \A j \in Group(i) : parseable(merged[j])
             /\ \A j, k \in Group(i) :
                    j # k => to_datetime(merged[j].collected_at) # to_datetime(merged[k].collected_at))
            => /\ Cardinality(Kept(dedup_key(merged[i]))) = 1
               /\ \A o \in Kept(dedup_key(merged[i])) : latest[o] = merged[Newest(Group(i))]

\* two rows with one link, the newer one loaded first with another summary, and
\* the newer one is the output
C1_Witness ==
    /\ status = "built"
    /\ Len(merged) >= 2
    /\ has_link(merged[1]) /\ merged[1].link = merged[2].link
    /\ summary_ok(merged[1]) /\ summary_ok(merged[2])
    /\ merged[1].summary # merged[2].summary
    /\ to_datetime(merged[1].collected_at) = 2
    /\ to_datetime(merged[2].collected_at) = 1
    /\ Group(1) = {1, 2}
    /\ \E o \in 1..Len(latest) : latest[o] = merged[1]

\* C2: in the output of build_latest no two rows have the same link when they
\* have one, and no two rows without a link have the same (title, summary).
C2_NoDuplicateKeys ==
    status = "built" =>
        \A a, b \in 1..Len(latest) :
            a # b =>
                /\ (has_link(latest[a]) /\ has_link(latest[b]))
                        => latest[a].link # latest[b].link
                /\ (~ has_link(latest[a]) /\ ~ has_link(latest[b]))
                        => <<latest[a].title, latest[a].summary>>
                                # <<latest[b].title, latest[b].summary>>

\* a pool with two valid linkless rows of one (title, summary) and a linked row
C2_Witness ==
    /\ status = "built"
    /\ Len(merged) = 3
    /\ \A i \in 1..3 : summary_ok(merged[i])
    /\ \E i, j, k \in 1..3 :
        /\ i # j
        /\ ~ has_link(merged[i]) /\ ~ has_link(merged[j])
        /\ merged[i].summary = merged[j].summary
        /\ merged[i].collected_at # merged[j].collected_at
        /\ has_link(merged[k])
    /\ Len(latest) = 2

\* C6 (as claimed): of valid rows with one key and equal collected_at, the row
\* kept is the one loaded last.
C6_TieKeepsLastLoaded ==
    status = "built" =>
        \A i \in 1..Len(merged) :
            (/\ summary_ok(merged[i])
             /\ Cardinality(Group(i)) >= 2
             /\ parseable(merged[i])
             /\ \A j \in Group(i) : merged[j].collected_at = merged[i].collected_at)
            => \A o \in Kept(dedup_key(merged[i])) : latest[o] = merged[Last(Group(i))]

\* C7 (as claimed): of valid rows with one key, one of them with an unparseable
\* collected_at, the row kept is the one loaded last.
C7_UnparseableKeepsLastLoaded ==
    status = "built" =>
        \A i \in 1..Len(merged) :
            (/\ summary_ok(merged[i])
             /\ \E j \in Group(i) : ~ parseable(merged[j]))
            => \A o \in Kept(dedup_key(merged[i])) : latest[o] = merged[Last(Group(i))]

\* C9: a valid row with a link and a valid row without one that agree on title
\* and summary are not deduplicated against each other: the output has a row
\* with that link and a linkless row with that title and summary, and the
\* linked row itself when no other valid row has its link.
C9_NoCrossKeyCollision ==
    status = "built" =>
        \A i, j \in 1..Len(merged) :
            (/\ summary_ok(merged[i]) /\ summary_ok(merged[j])
             /\ has_link(merged[i]) /\ ~ has_link(merged[j])
             /\ merged[i].title = merged[j].title
             /\ merged[i].summary = merged[j].summary)
            => /\ \E o \in 1..Len(latest) :
                    has_link(latest[o]) /\ latest[o].link = merged[i].link
               /\ \E o \in 1..Len(latest) :
                    /\ ~ has_link(latest[o])
                    /\ latest[o].title = merged[j].title
                    /\ latest[o].summary = merged[j].summary
               /\ (\A k \in Group(i) : merged[k] = merged[i])
                    => \E o \in 1..Len(latest) : latest[o] = merged[i]

\* a linkless row loaded before a linked row with the same title, summary and
\* collected_at, both in the output
C9_Witness ==
    /\ status = "built"
    /\ Len(merged) >= 2
    /\ summary_ok(merged[1]) /\ ~ has_link(merged[1])
    /\ has_link(merged[2])
    /\ merged[2].summary = merged[1].summary
    /\ merged[2].title = merged[1].title
    /\ merged[2].collected_at = merged[1].collected_at
    /\ \E a, b \in 1..Len(latest) : latest[a] = merged[1] /\ latest[b] = merged[2]

\* C10: adjacent output rows with parseable collected_at are in descending
\* order, and every row with an unparseable collected_at comes after every row
\* with a parseable one.
C10_OutputNewestFirst ==
    status = "built" =>
        /\ \A a \in 1..(Len(latest) - 1) :
                (parseable(latest[a]) /\ parseable(latest[a + 1]))
                    => to_datetime(latest[a].collected_at)
                            >= to_datetime(latest[a + 1].collected_at)
        /\ \A a, b \in 1..Len(latest) :
                (~ parseable(latest[a]) /\ parseable(latest[b])) => b < a

\* a pool loaded as unparseable, older, newer comes out as newer, older,
\* unparseable
C10_Witness ==
    /\ status = "built"
    /\ Len(merged) = 3 /\ Len(latest) = 3
    /\ ~ parseable(merged[1])
    /\ to_datetime(merged[2].collected_at) = 1
    /\ to_datetime(merged[3].collected_at) = 2
    /\ latest = <<merged[3], merged[2], merged[1]>>

\* C3 (as claimed): a successful run of main that follows a successful run leaves
\* in every output target exactly what the run before left there.
C3_SecondRunSameOutput ==
    (status = "ok" /\ prev = "ok") =>
        \A k \in 1..Len(OUTPUT_FILES) : disk[OUTPUT_FILES[k]] = before[OUTPUT_FILES[k]]

\* C4 (as claimed): a run that discovers a file lacking a required column skips
\* that file: it does not raise, and when its writes succeed the targets hold a
\* merge of the rows of the other discovered files.
C4_BadFileSkipped ==
    (status # "none" /\ load_raises(before, source_files)) =>
        /\ status # "ValueError"
        /\ status = "ok" =>
            /\ latest \in build_latest(load_sources(before,
                    Pick(source_files,
                         {i \in 1..Len(source_files) :
                            missing(before[source_files[i]]) = {}}, 1)))
            /\ \A k \in 1..Len(OUTPUT_FILES) : disk[OUTPUT_FILES[k]] = to_csv(latest)

\* C5 (as claimed): after a run whose write to some target failed, no target
\* holds the new merge result while another still holds its different previous
\* content.
C5_WritesAllOrNone ==
    status = "OSError" =>
        ~ \E a, b \in 1..Len(OUTPUT_FILES) :
            /\ disk[OUTPUT_FILES[a]] = to_csv(latest)
            /\ disk[OUTPUT_FILES[b]] = before[OUTPUT_FILES[b]]
            /\ disk[OUTPUT_FILES[b]] # to_csv(latest)

\* C8 (as claimed): no discovered source file is an output target of the run.
C8_NoOutputAmongSources ==
    \A i \in 1..Len(source_files) :
        \A k \in 1..Len(OUTPUT_FILES) : source_files[i] # OUTPUT_FILES[k]

\* C11 (as claimed): no output row has an empty or missing signal, publisher
\* or reporter.
C11_FieldsPopulated ==
    status = "built" =>
        \A o \in 1..Len(latest) :
            \A c \in {"signal", "publisher", "reporter"} :
                str_strip(astype_str(latest[o][c])) \notin {"", "nan"}

\* a summary cell that is missing, blank, or the text of a null ("nan", "None")
EmptySummary(v) == v = NaN \/ v \in {"", " ", "nan", "None", " nan "}

\* C12: build_latest drops the rows whose summary is empty after trimming or a
\* stringified null and only those: no output row has such a summary, and every
\* pool row with another summary has its key in the output, whatever its
\* publisher, reporter and signal are.
C12_OnlyEmptySummaryDropped ==
    status = "built" =>
        /\ \A o \in 1..Len(latest) : ~ EmptySummary(latest[o].summary)
        /\ \A i \in 1..Len(merged) :
                ~ EmptySummary(merged[i].summary) => Kept(dedup_key(merged[i])) # {}
        /\ \A i \in 1..Len(merged) :
                EmptySummary(merged[i].summary)
                    => \A o \in 1..Len(latest) : latest[o] # merged[i]

\* a blank summary and a missing summary are dropped, and the row with a real
\* summary but no publisher, reporter or signal is the output
C12_Witness ==
    /\ status = "built"
    /\ Len(merged) = 3
    /\ merged[1].summary = " "
    /\ merged[2].summary = NaN
    /\ merged[3].summary = "s1"
    /\ merged[3].publisher = NaN /\ merged[3].reporter = NaN /\ merged[3].signal = NaN
    /\ latest = <<merged[3]>>

\* a well-formed file of the seven columns and no row
HeaderOnly == [exists |-> TRUE, columns |-> REQUIRED_COLUMNS, rows |-> <<>>]

\* C13: a run that discovers no source file does not raise in load_sources or
\* build_latest: the pool is empty, build_latest returns it unchanged
\* (source_files=0, rows_written=0), and the run ends successfully with every
\* target holding the header and no row unless a target cannot be written.
C13_EmptyInputSucceeds ==
    (status # "none" /\ source_files = <<>>) =>
        /\ status \in {"ok", "OSError"}
        /\ merged = <<>>
        /\ latest = merged
        /\ Len(source_files) = 0 /\ Len(latest) = 0
        /\ status = "ok" =>
                \A k \in 1..Len(OUTPUT_FILES) : disk[OUTPUT_FILES[k]] = HeaderOnly
        /\ \A k \in 1..Len(OUTPUT_FILES) :
                disk[OUTPUT_FILES[k]] \in {HeaderOnly, before[OUTPUT_FILES[k]]}

\* a first run in a directory with no collection file and a stale
\* news_data_latest.csv: both targets end up header-only
C13_Witness ==
    /\ status = "ok"
    /\ runs = 1
    /\ source_files = <<>>
    /\ ~ before["news_data.csv"].exists
    /\ before["news_data_latest.csv"] = StaleFile
    /\ disk["news_data.csv"] = HeaderOnly
    /\ disk["news_data_latest.csv"] = HeaderOnly

\* C16: after a run that ended successfully every output target holds exactly
\* the rows this run's build_latest returned, in that order: the targets are
\* equal and nothing of a target's previous content is left beside them.
C16_FullReplace ==
    status = "ok" =>
        /\ \A k \in 1..Len(OUTPUT_FILES) : disk[OUTPUT_FILES[k]] = to_csv(latest)
        /\ \A a, b \in 1..Len(OUTPUT_FILES) : disk[OUTPUT_FILES[a]] = disk[OUTPUT_FILES[b]]
        /\ \A k \in 1..Len(OUTPUT_FILES) :
                \A i \in 1..Len(disk[OUTPUT_FILES[k]].rows) :
                    \E o \in 1..Len(latest) :
                        disk[OUTPUT_FILES[k]].rows[i] = to_csv(<<latest[o]>>).rows[1]

\* a successful run over a stale news_data_latest.csv and a non-empty merge:
\* the stale row is gone from the target
C16_Witness ==
    /\ status = "ok"
    /\ before["news_data_latest.csv"] = StaleFile
    /\ Len(latest) >= 1
    /\ disk["news_data_latest.csv"].rows = to_csv(latest).rows
    /\ \A i \in 1..Len(disk["news_data_latest.csv"].rows) :
            disk["news_data_latest.csv"].rows[i] # StaleFile.rows[1]

\* C14 (as claimed): output rows with an unparseable collected_at stand in the
\* order in which they stand in the pool, linked or not.
C14_UnparseableKeepPoolOrder ==
    status = "built" =>
        \A a, b \in 1..Len(latest) :
            (a < b /\ ~ parseable(latest[a]) /\ ~ parseable(latest[b]))
                => \E i, j \in 1..Len(merged) :
                        i < j /\ merged[i] = latest[a] /\ merged[j] = latest[b]

\* C15: every valid row of the pool has exactly one output row with its key,
\* also when its collected_at does not parse.
C15_OneRowPerArticle ==
    status = "built" =>
        \A i \in 1..Len(merged) :
            summary_ok(merged[i]) => Cardinality(Kept(dedup_key(merged[i]))) = 1

\* three valid rows of three keys, the first with an unparseable collected_at
\* and alone with its key: it is in the output, after the two others
C15_Witness ==
    /\ status = "built"
    /\ Len(merged) = 3
    /\ \A i \in 1..3 : summary_ok(merged[i])
    /\ ~ parseable(merged[1])
    /\ parseable(merged[2]) /\ parseable(merged[3])
    /\ \A i, j \in 1..3 : i # j => dedup_key(merged[i]) # dedup_key(merged[j])
    /\ Len(latest) = 3
    /\ latest[3] = merged[1]

====
